---- MODULE Spec2Model ----
(***************************************************************************)
(* fswhy: a recursive filesystem scan (src/model.rs) that builds a         *)
(* size-annotated tree, and the view engine (src/ui_state.rs) that         *)
(* projects the tree into a flat list driven by an expanded set, a cursor  *)
(* and a numeric input buffer, inside the session loop of src/lib.rs.      *)
(***************************************************************************)
EXTENDS FiniteSets, Integers, Sequences, TLC

(***************************************************************************)
(* Bounds of the model.                                                    *)
(***************************************************************************)
\* longest input_buffer the key decoder is allowed to build
MaxBuf == 2
\* largest index handed to Action::Toggle
MaxIndex == 6
\* largest viewport_height the window of render is computed for
MaxHeight == 7

(***************************************************************************)
(* Integer widths.  size is a u64 and a file length is at most the largest *)
(* off_t (2^63 - 1); view indices are usize.  The widths are scaled down   *)
(* (the ratio between the largest file length and the u64 modulus is       *)
(* kept) so that the arithmetic stays inside the model checker's integers. *)
(***************************************************************************)
U64Modulus == 2 ^ 6
MaxFileLen == (U64Modulus \div 2) - 1
UsizeMax == (2 ^ 4) - 1

(***************************************************************************)
(* File names are byte strings, paths are sequences of components.         *)
(***************************************************************************)
N_root == <<114, 111, 111, 116>>
N_a_txt == <<97, 46, 116, 120, 116>>
N_ab == <<97, 98>>
N_sub == <<115, 117, 98>>
N_b_txt == <<98, 46, 116, 120, 116>>
N_d == <<100>>
N_c_txt == <<99, 46, 116, 120, 116>>

N_z == <<122>>
\* f0 .. f9
N_f(k) == <<102, 48 + k>>
N_fs == {N_f(k) : k \in 0..9}

Names == {N_a_txt, N_ab, N_sub, N_b_txt, N_d, N_c_txt, N_z} \cup N_fs

P_root == <<N_root>>
P_a == <<N_root, N_a_txt>>
P_ab == <<N_root, N_ab>>
P_sub == <<N_root, N_sub>>
P_b == <<N_root, N_sub, N_b_txt>>
P_d == <<N_root, N_sub, N_d>>
P_c == <<N_root, N_sub, N_d, N_c_txt>>

CandPaths == {P_root, P_a, P_ab, P_sub, P_b, P_d, P_c}

(***************************************************************************)
(* The filesystem the scan reads: every candidate path is absent, a        *)
(* regular file of some length, a directory, a directory that cannot be    *)
(* listed ("denied"), an entry whose metadata cannot be read ("broken": a  *)
(* dangling symlink or an entry deleted after it was enumerated), or an    *)
(* entry for which the directory iterator itself yields an error           *)
(* ("ioerr").                                                              *)
(***************************************************************************)
Absent == [t |-> "absent", len |-> 0]
FileOf(n) == [t |-> "file", len |-> n]
Dir == [t |-> "dir", len |-> 0]
Denied == [t |-> "denied", len |-> 0]
Broken == [t |-> "broken", len |-> 0]
IoErr == [t |-> "ioerr", len |-> 0]

Lookup(f, p) == IF p \in DOMAIN f THEN f[p] ELSE Absent

Parent(p) == SubSeq(p, 1, Len(p) - 1)

\* children exist only below listable directories
WellFormedFs(f) ==
    \A p \in DOMAIN f :
        (Len(p) > 1 /\ f[p].t # "absent") => Lookup(f, Parent(p)).t = "dir"

\* the hash slot a name falls into in a directory; the enumeration order of
\* read_dir is a permutation of the slots
DirSlot(n) ==
    CASE n = N_a_txt -> 1
      [] n = N_ab -> 2
      [] n = N_sub -> 3
      [] n = N_b_txt -> 1
      [] n = N_d -> 2
      [] n = N_c_txt -> 1
      [] OTHER -> 1

NSlots == Cardinality({DirSlot(n) : n \in Names})

Perms(k) == {s \in [1..k -> 1..k] : \A i, j \in 1..k : s[i] = s[j] => i = j}
EnumOrders == Perms(NSlots)

\* the enumerations of a directory that is rewritten while read_dir walks
\* it (an entry removed and created again lands in a later slot, a network
\* filesystem repeats a cookie): every slot is met and one is met twice
RelistOrders ==
    {s \in [1..(NSlots + 1) -> 1..NSlots] : \A k \in 1..NSlots : \E i \in DOMAIN s : s[i] = k}

(***************************************************************************)
(* std::fs::metadata and std::fs::read_dir                                 *)
(***************************************************************************)
Metadata(f, p) ==
    LET e == Lookup(f, p) IN
    IF e.t \in {"absent", "broken", "ioerr"}
    THEN [ok |-> FALSE, is_dir |-> FALSE, len |-> 0]
    ELSE [ok |-> TRUE, is_dir |-> e.t \in {"dir", "denied"}, len |-> e.len]

RECURSIVE SetToSeq(_)
SetToSeq(S) ==
    IF S = {} THEN <<>>
    ELSE LET x == CHOOSE y \in S : TRUE IN <<x>> \o SetToSeq(S \ {x})

RECURSIVE EnumerateFrom(_, _, _, _)
EnumerateFrom(f, ord, p, r) ==
    IF r > Len(ord) THEN <<>>
    ELSE LET here == {n \in Names : DirSlot(n) = ord[r]
                                     /\ Lookup(f, p \o <<n>>).t # "absent"}
         IN SetToSeq(here) \o EnumerateFrom(f, ord, p, r + 1)

\* a read_dir whose failure is taken for an empty listing
ReadDirLenient(f, ord, p) ==
    IF Lookup(f, p).t # "dir"
    THEN [ok |-> TRUE, entries |-> <<>>]
    ELSE LET names == EnumerateFrom(f, ord, p, 1) IN
         [ok |-> TRUE,
          entries |-> [i \in 1..Len(names) |->
                         [name |-> names[i],
                          ok |-> Lookup(f, p \o <<names[i]>>).t # "ioerr"]]]

\* the entry results read_dir yields, in enumeration order
ReadDir(f, ord, p) ==
    IF Lookup(f, p).t # "dir"
    THEN [ok |-> FALSE, entries |-> <<>>]
    ELSE LET names == EnumerateFrom(f, ord, p, 1) IN
         [ok |-> TRUE,
          entries |-> [i \in 1..Len(names) |->
                         [name |-> names[i],
                          ok |-> Lookup(f, p \o <<names[i]>>).t # "ioerr"]]]

(***************************************************************************)
(* Node, NodeKind (src/model.rs)                                           *)
(***************************************************************************)
FileNode(p, sz) == [path |-> p, size |-> sz, kind |-> "File", children |-> <<>>]
DirNode(p, sz, ch) == [path |-> p, size |-> sz, kind |-> "Directory", children |-> ch]
NoNode == [path |-> <<>>, size |-> 0, kind |-> "None", children |-> <<>>]

is_dir(n) == n.kind = "Directory"

\* Ord of byte strings and of paths (component-wise, lexicographic)
RECURSIVE BytesCmp(_, _)
BytesCmp(a, b) ==
    IF a = <<>> /\ b = <<>> THEN "Equal"
    ELSE IF a = <<>> THEN "Less"
    ELSE IF b = <<>> THEN "Greater"
    ELSE IF Head(a) < Head(b) THEN "Less"
    ELSE IF Head(a) > Head(b) THEN "Greater"
    ELSE BytesCmp(Tail(a), Tail(b))

RECURSIVE PathCmp(_, _)
PathCmp(p, q) ==
    IF p = <<>> /\ q = <<>> THEN "Equal"
    ELSE IF p = <<>> THEN "Less"
    ELSE IF q = <<>> THEN "Greater"
    ELSE LET c == BytesCmp(Head(p), Head(q)) IN
         IF c # "Equal" THEN c ELSE PathCmp(Tail(p), Tail(q))

\* a comparator that forgets the kinds and orders by path alone
ChildCmpByPath(a, b) == PathCmp(a.path, b.path)

\* the comparator of children.sort_by: directories first, then by path
ChildCmp(a, b) ==
    IF is_dir(a) /\ ~is_dir(b) THEN "Less"
    ELSE IF ~is_dir(a) /\ is_dir(b) THEN "Greater"
    ELSE PathCmp(a.path, b.path)

\* stable sort by ChildCmp
RECURSIVE InsertSorted(_, _)
InsertSorted(s, x) ==
    IF s = <<>> THEN <<x>>
    ELSE IF ChildCmp(x, Head(s)) = "Less" THEN <<x>> \o s
    ELSE <<Head(s)>> \o InsertSorted(Tail(s), x)

\* children left in the order read_dir yielded them
SortChildrenNone(s) == s

RECURSIVE SortChildren(_)
SortChildren(s) ==
    IF s = <<>> THEN <<>>
    ELSE InsertSorted(SortChildren(SubSeq(s, 1, Len(s) - 1)), s[Len(s)])

\* children.iter().map(|c| c.size).sum() on u64: the mathematical sum, and
\* whether some partial sum left the u64 range
RECURSIVE SumSizes(_)
SumSizes(s) ==
    IF s = <<>> THEN [value |-> 0, overflow |-> FALSE]
    ELSE LET r == SumSizes(SubSeq(s, 1, Len(s) - 1))
             t == r.value + s[Len(s)].size
         IN [value |-> t % U64Modulus,
             overflow |-> r.overflow \/ t >= U64Modulus]

ScanOk(n) == [tag |-> "Ok", node |-> n]
ScanErr == [tag |-> "Err", node |-> NoNode]
ScanPanic == [tag |-> "Panic", node |-> NoNode]
NotScanned == [tag |-> "None", node |-> NoNode]

(***************************************************************************)
(* Node::scan_with_progress.  chk is the build's overflow-checks setting:  *)
(* with it an overflowing sum panics, without it the sum wraps.  The       *)
(* progress counter and the lines written to stderr are not modelled.      *)
(***************************************************************************)
RECURSIVE scan_with_progress(_, _, _, _)
RECURSIVE CollectChildren(_, _, _, _, _, _)

\* .map(|entry| scan_with_progress(entry.path(), ..)?).collect::<Result<_>>():
\* the first child that fails ends the iteration with its failure
CollectChildren(f, ord, chk, p, entries, acc) ==
    IF entries = <<>> THEN [tag |-> "Ok", nodes |-> acc]
    ELSE LET r == scan_with_progress(f, ord, chk, p \o <<Head(entries).name>>) IN
         IF r.tag # "Ok" THEN [tag |-> r.tag, nodes |-> <<>>]
         ELSE CollectChildren(f, ord, chk, p, Tail(entries), Append(acc, r.node))

scan_with_progress(f, ord, chk, p) ==
    LET meta == Metadata(f, p) IN
    IF ~meta.ok THEN ScanErr
    ELSE IF meta.is_dir THEN
        LET rd == ReadDir(f, ord, p) IN
        IF ~rd.ok THEN ScanErr
        ELSE LET yielded == SelectSeq(rd.entries, LAMBDA e : e.ok)
                 got == CollectChildren(f, ord, chk, p, yielded, <<>>)
             IN IF got.tag = "Err" THEN ScanErr
                ELSE IF got.tag = "Panic" THEN ScanPanic
                ELSE LET children == SortChildren(got.nodes)
                         total == SumSizes(children)
                     IN IF total.overflow /\ chk THEN ScanPanic
                        ELSE ScanOk(DirNode(p, total.value, children))
    ELSE ScanOk(FileNode(p, meta.len))

\* Node::scan
scan(f, ord, chk, p) == scan_with_progress(f, ord, chk, p)

(***************************************************************************)
(* The program state.                                                      *)
(***************************************************************************)
VARIABLES
    fs,              \* the filesystem the scan reads
    overflowChecks,  \* whether the build panics on integer overflow
    phase,           \* "start", "scanned", "failed", "aborted", "running", "exited"
    scanResult,      \* what Node::scan returned to App::new
    expanded_nodes,  \* UiState.expanded_nodes: references into the tree
    cursor,          \* UiState.cursor
    viewport_height, \* UiState.viewport_height
    input_buffer,    \* UiState.input_buffer
    status,          \* UiState.status
    action,          \* the action App::run decoded last
    ret              \* what UiState::update returned for it

vars == <<fs, overflowChecks, phase, scanResult, expanded_nodes,
          cursor, viewport_height, input_buffer, status, action, ret>>

\* App.node, the root the session borrows
Root == scanResult.node

(***************************************************************************)
(* A reference to a node (&Node) is the node's place in the tree: the      *)
(* sequence of child indices leading to it from the root.  Comparing two   *)
(* references with == compares the nodes they point to (derive PartialEq). *)
(***************************************************************************)
RECURSIVE NodeAtFrom(_, _)
NodeAtFrom(n, ref) ==
    IF ref = <<>> THEN n ELSE NodeAtFrom(n.children[Head(ref)], Tail(ref))

NodeAt(ref) == NodeAtFrom(Root, ref)

RootRef == <<>>

NodeEq(a, b) == NodeAt(a) = NodeAt(b)

(***************************************************************************)
(* StatusMessage, Action (src/ui_state.rs)                                 *)
(***************************************************************************)

\* the three messages: "Index {index} not found!", "{target_node:?} cannot be
\* toggled because it is a file." and "Invalid index: {input_buffer}"
Message(k, i, n, b) == [kind |-> k, node |-> n, index |-> i, buf |-> b]
IndexNotFoundText(index) == Message("IndexNotFound", index, NoNode, <<>>)
NotToggleableText(n) == Message("NotToggleable", 0, n, <<>>)
InvalidIndexText(buf) == Message("InvalidIndex", 0, NoNode, buf)
NoText == Message("None", 0, NoNode, <<>>)

NoStatus == [present |-> FALSE, text |-> NoText, is_error |-> FALSE]
ErrorStatus(msg) == [present |-> TRUE, text |-> msg, is_error |-> TRUE]

Act(t, i, c) == [ch |-> c, index |-> i, type |-> t]
NoAction == Act("None", 0, "")

AsciiDigits == {"0", "1", "2", "3", "4", "5", "6", "7", "8", "9"}
\* the characters InputDigit is called with
WideChars == {"1", "2"}
InputChars == {"0", "2", "x"}

\* a check that lets every character through
is_ascii_digit_any(c) == TRUE

is_ascii_digit(c) == c \in AsciiDigits

DigitVal(c) ==
    CASE c = "0" -> 0 [] c = "1" -> 1 [] c = "2" -> 2 [] c = "3" -> 3
      [] c = "4" -> 4 [] c = "5" -> 5 [] c = "6" -> 6 [] c = "7" -> 7
      [] c = "8" -> 8 [] c = "9" -> 9 [] OTHER -> 0

\* str::parse::<usize>: Err on an empty string, on a character that is not
\* a digit, and when the value does not fit a usize
RECURSIVE ParseFrom(_, _)
ParseFrom(buf, acc) ==
    IF buf = <<>> THEN [ok |-> TRUE, value |-> acc]
    ELSE IF ~is_ascii_digit(Head(buf)) THEN [ok |-> FALSE, value |-> 0]
    ELSE LET v == acc * 10 + DigitVal(Head(buf)) IN
         IF v > UsizeMax THEN [ok |-> FALSE, value |-> 0]
         ELSE ParseFrom(Tail(buf), v)

\* a parse whose accumulator wraps instead of reporting the overflow
RECURSIVE parse_usize_wrapping(_)
parse_usize_wrapping(buf) ==
    IF buf = <<>> THEN [ok |-> FALSE, value |-> 0]
    ELSE IF Len(buf) = 1 THEN [ok |-> TRUE, value |-> DigitVal(buf[1])]
    ELSE [ok |-> TRUE,
          value |-> (10 * parse_usize_wrapping(SubSeq(buf, 1, Len(buf) - 1)).value
                        + DigitVal(buf[Len(buf)])) % (UsizeMax + 1)]

\* a parse that keeps the last digit only
parse_usize_last_digit(buf) ==
    IF buf = <<>> THEN [ok |-> FALSE, value |-> 0]
    ELSE [ok |-> TRUE, value |-> DigitVal(buf[Len(buf)])]

parse_usize(buf) ==
    IF buf = <<>> THEN [ok |-> FALSE, value |-> 0] ELSE ParseFrom(buf, 0)

\* a subtraction that wraps below zero
wrapping_sub(a, b) == (a - b) % (UsizeMax + 1)

saturating_sub(a, b) == IF a >= b THEN a - b ELSE 0
Min(a, b) == IF a <= b THEN a ELSE b

(***************************************************************************)
(* UiState (src/ui_state.rs).  The operations are functions of the session *)
(* state s = [expanded_nodes, cursor, viewport_height, input_buffer,       *)
(* status]; the tree is immutable.                                         *)
(***************************************************************************)
\* a session that starts with nothing expanded
UiState_new_collapsed ==
    [expanded_nodes |-> <<>>,
     cursor |-> 0,
     viewport_height |-> 20,
     input_buffer |-> <<>>,
     status |-> NoStatus]

UiState_new ==
    [expanded_nodes |-> <<RootRef>>,
     cursor |-> 0,
     viewport_height |-> 20,
     input_buffer |-> <<>>,
     status |-> NoStatus]

\* a membership test that holds as soon as anything is expanded
ExpandedContainsAny(s, ref) == s.expanded_nodes # <<>>

\* self.expanded_nodes.contains(&node)
ExpandedContains(s, ref) ==
    \E i \in 1..Len(s.expanded_nodes) : NodeEq(s.expanded_nodes[i], ref)

RECURSIVE collect_recursive(_, _, _)
RECURSIVE CollectFrom(_, _, _, _)

\* the for loop over prop.children(), from child k on
CollectFrom(s, ref, depth, k) ==
    IF k > Len(NodeAt(ref).children) THEN <<>>
    ELSE collect_recursive(s, ref \o <<k>>, depth + 1)
         \o CollectFrom(s, ref, depth, k + 1)

\* a traversal that pushes a directory after its children
collect_recursive_post(s, ref, depth) ==
    (IF is_dir(NodeAt(ref)) /\ ExpandedContains(s, ref)
     THEN CollectFrom(s, ref, depth, 1)
     ELSE <<>>)
    \o <<[node |-> ref, depth |-> depth]>>

collect_recursive(s, ref, depth) ==
    <<[node |-> ref, depth |-> depth]>>
    \o (IF is_dir(NodeAt(ref)) /\ ExpandedContains(s, ref)
        THEN CollectFrom(s, ref, depth, 1)
        ELSE <<>>)

flatten_view(s) == collect_recursive(s, RootRef, 0)

(***************************************************************************)
(* ui::render: the window [start, end) of view rows that is drawn, from    *)
(* total = view.len(), state.cursor and state.viewport_height.             *)
(***************************************************************************)
Max(a, b) == IF a >= b THEN a ELSE b

\* a window that scrolls one row late
render_start_late(total, c, viewport) ==
    LET height == Max(viewport, 1)
        cur == Min(c, saturating_sub(total, 1))
    IN IF total <= height THEN 0
       ELSE IF cur + 1 <= height THEN 0
       ELSE Min(cur - height, saturating_sub(total, height))

render_start(total, c, viewport) ==
    LET height == Max(viewport, 1)
        cur == Min(c, saturating_sub(total, 1))
    IN IF total <= height THEN 0
       ELSE IF cur + 1 <= height THEN 0
       ELSE Min(cur + 1 - height, saturating_sub(total, height))

render_end(total, c, viewport) ==
    Min(render_start(total, c, viewport) + Max(viewport, 1), total)

\* the outcome of an operation that may panic on overflow
Done(s) == [panic |-> FALSE, state |-> s]
Panicked(s) == [panic |-> TRUE, state |-> s]

\* move_cursor without the clamp to view_len - 1
move_cursor_unclamped(s, delta, view_len) ==
    IF view_len = 0 THEN Done([s EXCEPT !.cursor = 0])
    ELSE IF delta < 0
         THEN Done([s EXCEPT !.cursor = saturating_sub(s.cursor, -delta)])
         ELSE IF s.cursor + delta > UsizeMax
              THEN Panicked(s)
              ELSE Done([s EXCEPT !.cursor = s.cursor + delta])

move_cursor(s, delta, view_len) ==
    IF view_len = 0 THEN Done([s EXCEPT !.cursor = 0])
    ELSE IF delta < 0
         THEN Done([s EXCEPT !.cursor = saturating_sub(s.cursor, -delta)])
         ELSE IF s.cursor + delta > UsizeMax
              THEN IF overflowChecks THEN Panicked(s)
                   ELSE Done([s EXCEPT !.cursor =
                                 Min((s.cursor + delta) % (UsizeMax + 1), view_len - 1)])
              ELSE Done([s EXCEPT !.cursor = Min(s.cursor + delta, view_len - 1)])

set_error(s, msg) == [s EXCEPT !.status = ErrorStatus(msg)]
\* a clear_status that leaves the message on display
clear_status_keep(s) == s

clear_status(s) == [s EXCEPT !.status = NoStatus]

\* self.expanded_nodes.iter().position(|&x| x == target_node); 0 for None
Position(exp, target) ==
    IF \E i \in 1..Len(exp) : NodeEq(exp[i], target)
    THEN CHOOSE i \in 1..Len(exp) :
            /\ NodeEq(exp[i], target)
            /\ \A j \in 1..(i - 1) : ~NodeEq(exp[j], target)
    ELSE 0

RemoveAt(seq, i) == SubSeq(seq, 1, i - 1) \o SubSeq(seq, i + 1, Len(seq))

ToggleOk(s) == [ok |-> TRUE, err |-> NoText, state |-> s]
ToggleErr(s, msg) == [ok |-> FALSE, err |-> msg, state |-> s]

\* a toggle that always pushes, whether or not the node is already held
toggle_by_index_push(s, index) ==
    LET view == flatten_view(s) IN
    IF index >= Len(view) THEN ToggleErr(s, IndexNotFoundText(index))
    ELSE LET target_node == view[index + 1].node IN
         IF NodeAt(target_node).kind = "File"
         THEN ToggleErr(s, NotToggleableText(NodeAt(target_node)))
         ELSE ToggleOk([s EXCEPT !.expanded_nodes = Append(@, target_node)])

\* a toggle whose collapse also drops every expanded descendant
toggle_by_index_forget(s, index) ==
    LET view == flatten_view(s) IN
    IF index >= Len(view) THEN ToggleErr(s, IndexNotFoundText(index))
    ELSE LET target_node == view[index + 1].node IN
         IF NodeAt(target_node).kind = "File"
         THEN ToggleErr(s, NotToggleableText(NodeAt(target_node)))
         ELSE LET pos == Position(s.expanded_nodes, target_node)
                  Below(r) == /\ Len(r) >= Len(target_node)
                              /\ SubSeq(r, 1, Len(target_node)) = target_node
                  s1 == [s EXCEPT !.expanded_nodes =
                            IF pos # 0 THEN SelectSeq(@, LAMBDA r : ~Below(r))
                            ELSE Append(@, target_node)]
                  view_len == Len(flatten_view(s1))
              IN ToggleOk(IF s1.cursor >= view_len
                          THEN [s1 EXCEPT !.cursor = saturating_sub(view_len, 1)]
                          ELSE s1)

\* a toggle without the check that the target is a directory
toggle_by_index_any_kind(s, index) ==
    LET view == flatten_view(s) IN
    IF index >= Len(view) THEN ToggleErr(s, IndexNotFoundText(index))
    ELSE LET target_node == view[index + 1].node
             pos == Position(s.expanded_nodes, target_node)
             s1 == [s EXCEPT !.expanded_nodes =
                       IF pos # 0 THEN RemoveAt(@, pos)
                       ELSE Append(@, target_node)]
             view_len == Len(flatten_view(s1))
         IN ToggleOk(IF s1.cursor >= view_len
                     THEN [s1 EXCEPT !.cursor = saturating_sub(view_len, 1)]
                     ELSE s1)

toggle_by_index(s, index) ==
    LET view == flatten_view(s) IN
    IF index >= Len(view) THEN ToggleErr(s, IndexNotFoundText(index))
    ELSE LET target_node == view[index + 1].node IN
         IF NodeAt(target_node).kind = "File"
         THEN ToggleErr(s, NotToggleableText(NodeAt(target_node)))
         ELSE LET pos == Position(s.expanded_nodes, target_node)
                  s1 == [s EXCEPT !.expanded_nodes =
                            IF pos # 0 THEN RemoveAt(@, pos)
                            ELSE Append(@, target_node)]
                  view_len == Len(flatten_view(s1))
              IN ToggleOk(IF s1.cursor >= view_len
                          THEN [s1 EXCEPT !.cursor = saturating_sub(view_len, 1)]
                          ELSE s1)

toggle_at_cursor(s) == toggle_by_index(s, s.cursor)

\* a clear that leaves the typed digits in place
ClearBufferKeep(s) == s

\* a clear that resets the status line together with the buffer
ClearBufferAndStatus(s) == [s EXCEPT !.input_buffer = <<>>, !.status = NoStatus]

ClearBuffer(s) == [s EXCEPT !.input_buffer = <<>>]

\* an Ok arm that leaves the cursor where it was
SnapCursorKeep(s, index) == clear_status(s)

\* the Ok arm of Action::Toggle and of the numeric Action::Enter
SnapCursor(s, index) ==
    clear_status([s EXCEPT !.cursor =
                     Min(index, saturating_sub(Len(flatten_view(s)), 1))])

\* a pop that takes the first character
pop_first(buf) == IF buf = <<>> THEN <<>> ELSE Tail(buf)

\* String::pop: the string without its last character, if it has one
pop(buf) == IF buf = <<>> THEN <<>> ELSE SubSeq(buf, 1, Len(buf) - 1)

Continue(s) == [ret |-> "Ok(true)", state |-> s]
\* a Quit arm that asks the loop to continue
QuittingContinues(s) == [ret |-> "Ok(true)", state |-> s]

\* a Quit arm that tidies the buffer and the status away before leaving
QuittingResets(s) == [ret |-> "Ok(false)", state |-> clear_status(ClearBuffer(s))]

Quitting(s) == [ret |-> "Ok(false)", state |-> s]
Abort(s) == [ret |-> "Panic", state |-> s]

update(s, a) ==
    LET view_len == Len(flatten_view(s)) IN
    CASE a.type = "MoveUp" ->
            LET m == move_cursor(clear_status(ClearBuffer(s)), -1, view_len) IN
            IF m.panic THEN Abort(m.state) ELSE Continue(m.state)
      [] a.type = "MoveDown" ->
            LET m == move_cursor(clear_status(ClearBuffer(s)), 1, view_len) IN
            IF m.panic THEN Abort(m.state) ELSE Continue(m.state)
      [] a.type = "ToggleAtCursor" ->
            LET t == toggle_at_cursor(ClearBuffer(s)) IN
            IF t.ok THEN Continue(clear_status(t.state))
            ELSE Continue(set_error(t.state, t.err))
      [] a.type = "Toggle" ->
            LET t == toggle_by_index(ClearBuffer(s), a.index) IN
            IF t.ok THEN Continue(SnapCursor(t.state, a.index))
            ELSE Continue(set_error(t.state, t.err))
      [] a.type = "Enter" ->
            IF s.input_buffer = <<>>
            THEN LET t == toggle_at_cursor(s) IN
                 IF t.ok THEN Continue(ClearBuffer(clear_status(t.state)))
                 ELSE Continue(ClearBuffer(set_error(t.state, t.err)))
            ELSE LET parsed == parse_usize(s.input_buffer) IN
                 IF ~parsed.ok
                 THEN Continue(ClearBuffer(set_error(s, InvalidIndexText(s.input_buffer))))
                 ELSE LET t == toggle_by_index(s, parsed.value) IN
                      IF t.ok
                      THEN Continue(ClearBuffer(SnapCursor(t.state, parsed.value)))
                      ELSE Continue(ClearBuffer(set_error(t.state, t.err)))
      [] a.type = "InputDigit" ->
            Continue(clear_status(
                IF is_ascii_digit(a.ch)
                THEN [s EXCEPT !.input_buffer = Append(@, a.ch)]
                ELSE s))
      [] a.type = "InputBackspace" ->
            Continue(clear_status([s EXCEPT !.input_buffer = pop(@)]))
      [] a.type = "Quit" -> Quitting(s)

(***************************************************************************)
(* Filesystems.                                                            *)
(***************************************************************************)
MkFs(r, a, ab, sub, b, d, c) ==
    [p \in CandPaths |->
        CASE p = P_root -> r
          [] p = P_a -> a
          [] p = P_ab -> ab
          [] p = P_sub -> sub
          [] p = P_b -> b
          [] p = P_d -> d
          [] p = P_c -> c]

\* root/ (a.txt 10B, sub/ (b.txt 20B))
FsScenario == MkFs(Dir, FileOf(10), Absent, Dir, FileOf(20), Absent, Absent)
\* root/ (a.txt 10B, sub/ (b.txt 20B, d/ (c.txt)))
FsDeep == MkFs(Dir, FileOf(10), Absent, Dir, FileOf(20), Dir, FileOf(MaxFileLen))
\* the root is a plain file
FsFileRoot == MkFs(FileOf(10), Absent, Absent, Absent, Absent, Absent, Absent)
\* the root is an empty directory
FsEmptyRoot == MkFs(Dir, Absent, Absent, Absent, Absent, Absent, Absent)
\* the root path does not exist
FsMissing == MkFs(Absent, Absent, Absent, Absent, Absent, Absent, Absent)
\* root/ (a.txt dangling, sub/ (b.txt 20B))
FsBrokenChild == MkFs(Dir, Broken, Absent, Dir, FileOf(20), Absent, Absent)

\* root/ (sub/ (f0 .. f9, 1B each), z/, a.txt 10B, b.txt 20B): fifteen rows
\* once sub is expanded, the directory z on view-index 12
FsWide ==
    [p \in {P_root, P_sub, <<N_root, N_z>>, P_a, <<N_root, N_b_txt>>}
            \cup {P_sub \o <<n>> : n \in N_fs} |->
        CASE p \in {P_root, P_sub, <<N_root, N_z>>} -> Dir
          [] p = P_a -> FileOf(10)
          [] p = <<N_root, N_b_txt>> -> FileOf(20)
          [] OTHER -> FileOf(1)]

SessionFs == {FsScenario, FsDeep, FsFileRoot, FsEmptyRoot, FsMissing, FsBrokenChild}

FileLens == {0, 10, 20, MaxFileLen}
Files == {FileOf(n) : n \in FileLens}

\* every filesystem over the candidate paths
ScanFs ==
    {f \in {MkFs(r, a, ab, sub, b, d, c) :
              r \in {Dir, Absent, Denied, FileOf(10)},
              a \in {Absent, Broken, IoErr} \cup Files,
              ab \in {Absent, Dir, FileOf(MaxFileLen)},
              sub \in {Absent, Dir, Denied, FileOf(MaxFileLen)},
              b \in {Absent, Broken, FileOf(20), FileOf(MaxFileLen)},
              d \in {Absent, Dir, IoErr},
              c \in {Absent, FileOf(MaxFileLen)}} : WellFormedFs(f)}

(***************************************************************************)
(* Initial states: the process has started and nothing has run yet.        *)
(***************************************************************************)
InitWith(FsSet) ==
    /\ fs \in FsSet
    /\ overflowChecks \in BOOLEAN
    /\ phase = "start"
    /\ scanResult = NotScanned
    /\ expanded_nodes = <<>>
    /\ cursor = 0
    /\ viewport_height = 0
    /\ input_buffer = <<>>
    /\ status = NoStatus
    /\ action = NoAction
    /\ ret = "None"

Init == InitWith(SessionFs)
InitScan == InitWith(ScanFs)

UiVars == <<expanded_nodes, cursor, viewport_height, input_buffer, status>>
EnvVars == <<fs, overflowChecks>>

\* the UiState of the running session
St ==
    [expanded_nodes |-> expanded_nodes,
     cursor |-> cursor,
     viewport_height |-> viewport_height,
     input_buffer |-> input_buffer,
     status |-> status]

SetSt(s) ==
    /\ expanded_nodes' = s.expanded_nodes
    /\ cursor' = s.cursor
    /\ viewport_height' = s.viewport_height
    /\ input_buffer' = s.input_buffer
    /\ status' = s.status

(***************************************************************************)
(* App::new: scan the root path, read_dir enumerating in any order.  An    *)
(* Err is returned to the caller and a panic aborts the process; in both   *)
(* cases no session starts.                                                *)
(***************************************************************************)
AppNew ==
    /\ phase = "start"
    /\ \E ord \in EnumOrders :
          scanResult' = scan(fs, ord, overflowChecks, P_root)
    /\ phase' = CASE scanResult'.tag = "Ok" -> "scanned"
                  [] scanResult'.tag = "Err" -> "failed"
                  [] OTHER -> "aborted"
    /\ UNCHANGED <<EnvVars, UiVars, action, ret>>

\* App::new while the scanned directories are being rewritten: read_dir
\* yields the entries of one slot twice
AppNewRelisting ==
    /\ phase = "start"
    /\ \E ord \in RelistOrders :
          scanResult' = scan(fs, ord, overflowChecks, P_root)
    /\ phase' = CASE scanResult'.tag = "Ok" -> "scanned"
                  [] scanResult'.tag = "Err" -> "failed"
                  [] OTHER -> "aborted"
    /\ UNCHANGED <<EnvVars, UiVars, action, ret>>

\* App::run up to the loop: create_ui_state
CreateUiState ==
    /\ phase = "scanned"
    /\ SetSt(UiState_new)
    /\ phase' = "running"
    /\ UNCHANGED <<EnvVars, scanResult, action, ret>>

\* one iteration of the loop of App::run with the decoded action a
Step(a) ==
    /\ phase = "running"
    /\ LET r == update(St, a) IN
        /\ SetSt(r.state)
        /\ ret' = r.ret
        /\ phase' = CASE r.ret = "Ok(false)" -> "exited"
                      [] r.ret = "Panic" -> "aborted"
                      [] OTHER -> "running"
    /\ action' = a
    /\ UNCHANGED <<EnvVars, scanResult>>

MoveUp == Step(Act("MoveUp", 0, ""))
MoveDown == Step(Act("MoveDown", 0, ""))
ToggleAtCursor == Step(Act("ToggleAtCursor", 0, ""))
Toggle == \E i \in 0..MaxIndex : Step(Act("Toggle", i, ""))
Enter == Step(Act("Enter", 0, ""))
InputDigit ==
    /\ Len(input_buffer) < MaxBuf
    /\ \E c \in InputChars : Step(Act("InputDigit", 0, c))
\* the digit keys of a session on a long view
InputDigitWide ==
    /\ Len(input_buffer) < MaxBuf
    /\ \E c \in WideChars : Step(Act("InputDigit", 0, c))
InputBackspace == Step(Act("InputBackspace", 0, ""))
Quit == Step(Act("Quit", 0, ""))

\* ui::get_input failed: the loop reports it and continues
InputError ==
    /\ phase = "running"
    /\ action' = NoAction
    /\ ret' = "None"
    /\ UNCHANGED <<EnvVars, UiVars, scanResult, phase>>

Next ==
    \/ AppNew
    \/ CreateUiState
    \/ MoveUp
    \/ MoveDown
    \/ ToggleAtCursor
    \/ Toggle
    \/ Enter
    \/ InputDigit
    \/ InputBackspace
    \/ Quit
    \/ InputError

Spec == Init /\ [][Next]_vars

\* a session on a tree scanned while its directories were rewritten
InitRelist == InitWith({FsScenario, FsBrokenChild})
NextRelist ==
    \/ AppNewRelisting
    \/ CreateUiState
    \/ MoveUp
    \/ MoveDown
    \/ ToggleAtCursor
    \/ Toggle
    \/ Enter
    \/ InputDigit
    \/ InputBackspace
    \/ Quit
    \/ InputError
SpecRelist == InitRelist /\ [][NextRelist]_vars

\* a session on the fifteen-row tree driven from the keyboard, with the digit
\* keys 1 and 2: ui::get_input decodes no key into Action::Toggle(i)
InitWide == InitWith({FsWide})
NextWide ==
    \/ AppNew
    \/ CreateUiState
    \/ MoveUp
    \/ MoveDown
    \/ ToggleAtCursor
    \/ Enter
    \/ InputDigitWide
    \/ InputBackspace
    \/ Quit
    \/ InputError
SpecWide == InitWide /\ [][NextWide]_vars

\* the scan alone, over every filesystem
NextScan == AppNew \/ CreateUiState
SpecScan == InitScan /\ [][NextScan]_vars

(***************************************************************************)
(* Helpers of the properties.                                              *)
(***************************************************************************)
InSession == phase \in {"running", "exited"}

\* every reference into the tree below n, n at ref
RECURSIVE RefsFrom(_, _)
RefsFrom(n, ref) ==
    {ref} \cup UNION {RefsFrom(n.children[k], ref \o <<k>>) : k \in 1..Len(n.children)}

AllRefs == RefsFrom(Root, RootRef)

ProperPrefixes(ref) == {SubSeq(ref, 1, k) : k \in 0..(Len(ref) - 1)}

\* the references held in expanded_nodes
ExpandedRefs(s) == {s.expanded_nodes[i] : i \in 1..Len(s.expanded_nodes)}

ViewRefs(s) == LET v == flatten_view(s) IN {v[i].node : i \in 1..Len(v)}

(***************************************************************************)
(* C1  Cursor safety: in every state of a session the cursor is below the  *)
(* length of the flattened view, or is 0 when the view is empty.           *)
(***************************************************************************)
C1_CursorSafety ==
    InSession =>
        LET n == Len(flatten_view(St)) IN
        IF n = 0 THEN cursor = 0 ELSE cursor < n

\* MoveDown was handled with the cursor on the last row of a view of
\* several rows
C1_Witness ==
    /\ phase = "running"
    /\ action.type = "MoveDown"
    /\ Len(flatten_view(St)) > 1
    /\ cursor = Len(flatten_view(St)) - 1

(***************************************************************************)
(* C2  Projection correctness: a node of the tree is a row of the view if  *)
(* and only if every ancestor of it is held in expanded_nodes; so nothing  *)
(* below a collapsed directory is shown, whatever is expanded below it.    *)
(***************************************************************************)
C2_Projection ==
    InSession =>
        \A ref \in AllRefs :
            ref \in ViewRefs(St) <=> ProperPrefixes(ref) \subseteq ExpandedRefs(St)

\* a directory is held in expanded_nodes below a collapsed ancestor
C2_Witness ==
    /\ phase = "running"
    /\ \E ref \in ExpandedRefs(St) :
          /\ ~(ProperPrefixes(ref) \subseteq ExpandedRefs(St))
          /\ NodeAt(ref).children # <<>>
          /\ ref \notin ViewRefs(St)

(***************************************************************************)
(* C3  Partial failure policy: a non-root entry that cannot be read is     *)
(* skipped; the scan still succeeds and returns the tree of everything     *)
(* that can be read.  (Filesystems whose sizes overflow are left aside.)   *)
(***************************************************************************)
Prefixes(p) == {SubSeq(p, 1, k) : k \in 1..Len(p)}

ReadablePaths(f) ==
    {p \in CandPaths : \A q \in Prefixes(p) : Lookup(f, q).t \in {"file", "dir"}}

RECURSIVE PathsOfTree(_)
PathsOfTree(n) ==
    {n.path} \cup UNION {PathsOfTree(n.children[k]) : k \in 1..Len(n.children)}

RECURSIVE LenOver(_, _)
LenOver(f, S) ==
    IF S = {} THEN 0
    ELSE LET x == CHOOSE y \in S : TRUE IN f[x].len + LenOver(f, S \ {x})

TotalLen(f) == LenOver(f, ReadablePaths(f))

C3_SkipUnreadable ==
    (/\ phase # "start"
     /\ Lookup(fs, P_root).t \in {"file", "dir"}
     /\ TotalLen(fs) < U64Modulus)
    => /\ scanResult.tag = "Ok"
       /\ PathsOfTree(scanResult.node) = ReadablePaths(fs)

(***************************************************************************)
(* C4  Size aggregation: in every tree the scan returns, the size of a     *)
(* directory is the sum of the sizes of its children and the size of a     *)
(* file is its length in the filesystem.                                   *)
(***************************************************************************)
RECURSIVE SeqSum(_)
SeqSum(q) == IF q = <<>> THEN 0 ELSE Head(q) + SeqSum(Tail(q))

RECURSIVE SizesAggregate(_)
SizesAggregate(n) ==
    IF is_dir(n)
    THEN /\ n.size = SeqSum([k \in 1..Len(n.children) |-> n.children[k].size])
         /\ \A k \in 1..Len(n.children) : SizesAggregate(n.children[k])
    ELSE n.size = Lookup(fs, n.path).len

C4_SizeAggregation == scanResult.tag = "Ok" => SizesAggregate(Root)

(***************************************************************************)
(* C5  Canonical ordering: below every directory of a scanned tree, and so *)
(* among the siblings of every flattened view whatever is expanded, a      *)
(* directory comes before every file and siblings of one kind are in       *)
(* strictly ascending path order, whatever order read_dir enumerated in.   *)
(***************************************************************************)
Precedes(a, b) ==
    \/ is_dir(a) /\ ~is_dir(b)
    \/ is_dir(a) = is_dir(b) /\ PathCmp(a.path, b.path) = "Less"

RECURSIVE TreeOrdered(_)
TreeOrdered(n) ==
    /\ \A i, j \in 1..Len(n.children) :
          i < j => Precedes(n.children[i], n.children[j])
    /\ \A k \in 1..Len(n.children) : TreeOrdered(n.children[k])

DirRefs == {r \in AllRefs : is_dir(NodeAt(r))}

ViewOrdered(s) ==
    LET v == flatten_view(s) IN
    \A i, j \in 1..Len(v) :
        (/\ i < j
         /\ v[i].node # RootRef
         /\ v[j].node # RootRef
         /\ Parent(v[i].node) = Parent(v[j].node))
        => Precedes(NodeAt(v[i].node), NodeAt(v[j].node))

C5_CanonicalOrdering ==
    scanResult.tag = "Ok" =>
        /\ TreeOrdered(Root)
        /\ \A E \in SUBSET DirRefs :
              ViewOrdered([UiState_new EXCEPT !.expanded_nodes = SetToSeq(E)])

\* a scanned directory holds two directories and a file
C5_Witness ==
    /\ scanResult.tag = "Ok"
    /\ \E r \in DirRefs :
          LET ch == NodeAt(r).children IN
          /\ Len(ch) >= 3
          /\ is_dir(ch[1])
          /\ is_dir(ch[2])
          /\ ~is_dir(ch[Len(ch)])

(***************************************************************************)
(* Helpers of the properties about actions.                                *)
(***************************************************************************)
\* every action the session can be handed
AllActions ==
    {Act(t, 0, "") : t \in {"MoveUp", "MoveDown", "ToggleAtCursor", "Enter",
                             "InputBackspace", "Quit"}}
    \cup {Act("Toggle", i, "") : i \in 0..MaxIndex}
    \cup {Act("InputDigit", 0, c) : c \in InputChars}

ToggleLike == {a \in AllActions : a.type \in {"ToggleAtCursor", "Toggle", "Enter"}}

After(s, a) == update(s, a).state

\* the rows of a view as (path, depth)
ViewRows(s) ==
    LET v == flatten_view(s) IN
    [i \in 1..Len(v) |-> <<NodeAt(v[i].node).path, v[i].depth>>]

\* the view-index a toggling action aims at; -1 when Enter cannot parse one
TargetIndex(s, a) ==
    CASE a.type = "Toggle" -> a.index
      [] a.type = "ToggleAtCursor" -> s.cursor
      [] a.type = "Enter" ->
            IF s.input_buffer = <<>> THEN s.cursor
            ELSE IF parse_usize(s.input_buffer).ok
                 THEN parse_usize(s.input_buffer).value
                 ELSE -1
      [] OTHER -> -1

IsDirIndex(s, i) ==
    /\ i >= 0
    /\ i < Len(flatten_view(s))
    /\ is_dir(NodeAt(flatten_view(s)[i + 1].node))

\* the index is out of range, or it resolves to a file
IsFailingIndex(s, i) ==
    /\ i >= 0
    /\ \/ i >= Len(flatten_view(s))
       \/ ~is_dir(NodeAt(flatten_view(s)[i + 1].node))

(***************************************************************************)
(* C6  Scenario root/ (a.txt 10B, sub/ (b.txt 20B)), as stated: the fresh  *)
(* view is [root, a.txt, sub] and Toggle(2) yields [root, a.txt, sub,      *)
(* b.txt]; root.size is 30.                                                *)
(***************************************************************************)
C6_ScenarioAsStated ==
    (fs = FsScenario /\ phase = "running" /\ St = UiState_new) =>
        /\ ViewRows(St) = <<<<P_root, 0>>, <<P_a, 1>>, <<P_sub, 1>>>>
        /\ ViewRows(After(St, Act("Toggle", 2, "")))
              = <<<<P_root, 0>>, <<P_a, 1>>, <<P_sub, 1>>, <<P_b, 2>>>>
        /\ Root.size = 30

(***************************************************************************)
(* C6  Scenario, amended: directories come first, so the fresh view is     *)
(* [root(0), sub(1), a.txt(1)] with root expanded and sub collapsed;       *)
(* Toggle(1) yields [root, sub, b.txt(2), a.txt]; Toggle(2) aims at the    *)
(* file a.txt and fails; root.size is 30.                                  *)
(***************************************************************************)
C6_Scenario ==
    (fs = FsScenario /\ phase = "running" /\ St = UiState_new) =>
        /\ ViewRows(St) = <<<<P_root, 0>>, <<P_sub, 1>>, <<P_a, 1>>>>
        /\ ExpandedRefs(St) = {RootRef}
        /\ ViewRows(After(St, Act("Toggle", 1, "")))
              = <<<<P_root, 0>>, <<P_sub, 1>>, <<P_b, 2>>, <<P_a, 1>>>>
        /\ After(St, Act("Toggle", 2, "")).status.present
        /\ Root.size = 30

\* the scenario's session after Toggle(1)
C6_Witness ==
    /\ fs = FsScenario
    /\ phase = "running"
    /\ action = Act("Toggle", 1, "")
    /\ ~status.present
    /\ ViewRows(St) = <<<<P_root, 0>>, <<P_sub, 1>>, <<P_b, 2>>, <<P_a, 1>>>>

(***************************************************************************)
(* C7  Toggle twice, as stated: two Toggle(i) in a row on a directory      *)
(* restore the members of expanded_nodes, and the view after the first     *)
(* toggle differs from the view before it.                                 *)
(***************************************************************************)
C7_ToggleTwiceAsStated ==
    phase = "running" =>
        \A i \in 0..MaxIndex :
            IsDirIndex(St, i) =>
                LET a == Act("Toggle", i, "")
                    s1 == After(St, a)
                    s2 == After(s1, a)
                IN /\ ExpandedRefs(s2) = ExpandedRefs(St)
                   /\ flatten_view(s1) # flatten_view(St)

(***************************************************************************)
(* C7  Toggle twice, amended: two Toggle(i) in a row on a directory        *)
(* restore the members of expanded_nodes (each held once); the view after  *)
(* the first toggle differs from the view before it exactly when the       *)
(* directory has at least one child.                                       *)
(***************************************************************************)
C7_ToggleTwice ==
    phase = "running" =>
        \A i \in 0..MaxIndex :
            IsDirIndex(St, i) =>
                LET a == Act("Toggle", i, "")
                    s1 == After(St, a)
                    s2 == After(s1, a)
                    target == flatten_view(St)[i + 1].node
                IN /\ ExpandedRefs(s2) = ExpandedRefs(St)
                   /\ Len(s2.expanded_nodes) = Len(St.expanded_nodes)
                   /\ (flatten_view(s1) # flatten_view(St))
                         <=> (NodeAt(target).children # <<>>)

\* a Toggle(i) has just succeeded on a directory without children
C7_Witness ==
    /\ phase = "running"
    /\ action.type = "Toggle"
    /\ ~status.present
    /\ IsDirIndex(St, action.index)
    /\ NodeAt(flatten_view(St)[action.index + 1].node).children = <<>>

(***************************************************************************)
(* C8  Frame of a toggle: a successful toggle (ToggleAtCursor, Toggle(i),  *)
(* Enter) changes the membership of the toggled directory and of no other  *)
(* node, descendants included; collapsing an expanded directory and        *)
(* expanding it again gives back the same view.                            *)
(***************************************************************************)
C8_ToggleFrame ==
    phase = "running" =>
        \A a \in ToggleLike :
            IsDirIndex(St, TargetIndex(St, a)) =>
                LET target == flatten_view(St)[TargetIndex(St, a) + 1].node
                    s1 == After(St, a)
                    s2 == After(s1, a)
                IN /\ \A r \in AllRefs \ {target} :
                        r \in ExpandedRefs(s1) <=> r \in ExpandedRefs(St)
                   /\ target \in ExpandedRefs(s1) <=> target \notin ExpandedRefs(St)
                   /\ target \in ExpandedRefs(St) =>
                        flatten_view(s2) = flatten_view(St)

\* a directory was expanded again by the last toggle and shows the children
\* of a child that had been expanded before it
C8_Witness ==
    /\ phase = "running"
    /\ action.type \in {"Toggle", "ToggleAtCursor", "Enter"}
    /\ ~status.present
    /\ expanded_nodes # <<>>
    /\ LET target == expanded_nodes[Len(expanded_nodes)] IN
        /\ target = flatten_view(St)[cursor + 1].node
        /\ \E r \in ExpandedRefs(St) :
              /\ Len(r) = Len(target) + 1
              /\ SubSeq(r, 1, Len(target)) = target
              /\ NodeAt(r).children # <<>>
              /\ r \o <<1>> \in ViewRefs(St)

C11_IdentityMembership ==
    phase = "running" =>
        \A a \in ToggleLike :
            IsDirIndex(St, TargetIndex(St, a)) =>
                LET t == flatten_view(St)[TargetIndex(St, a) + 1].node IN
                \A r \in DirRefs \ {t} :
                    /\ ExpandedContains(After(St, a), r) <=> ExpandedContains(St, r)
                    /\ Position(After(St, a).expanded_nodes, r) # 0
                          <=> Position(St.expanded_nodes, r) # 0

(***************************************************************************)
(* C12  In every state of a session started by UiState::new on a scanned   *)
(* root, a directory or a plain file, every member of expanded_nodes is a  *)
(* Directory node and no node occurs in it more than once.                 *)
(***************************************************************************)
C12_DirectorySet ==
    InSession =>
        /\ \A i \in 1..Len(expanded_nodes) : is_dir(NodeAt(expanded_nodes[i]))
        /\ \A i, j \in 1..Len(expanded_nodes) :
              expanded_nodes[i] = expanded_nodes[j] => i = j

(***************************************************************************)
(* C13  As stated: after MoveUp, MoveDown, ToggleAtCursor, Toggle(i) or    *)
(* Enter is handled the input buffer is empty, and only InputDigit and     *)
(* InputBackspace can leave a non-empty buffer.                            *)
(***************************************************************************)
C13_BufferClearingAsStated ==
    [][phase = "running" /\ action'.type \in {t \in {a.type : a \in AllActions} :
                                                t \notin {"InputDigit", "InputBackspace"}}
          => input_buffer' = <<>>]_vars

(***************************************************************************)
(* C13  After MoveUp, MoveDown, ToggleAtCursor, Toggle(i) or Enter is      *)
(* handled, on success or failure, the input buffer is empty; only         *)
(* InputDigit, InputBackspace and Quit (which leaves the buffer as it was  *)
(* and ends the session) can leave a non-empty buffer.                     *)
(***************************************************************************)
C13_BufferClearing ==
    [][phase = "running" /\ action'.type # "None" =>
          /\ action'.type \in {"MoveUp", "MoveDown", "ToggleAtCursor", "Toggle", "Enter"}
                => input_buffer' = <<>>
          /\ action'.type = "Quit" => input_buffer' = input_buffer
          /\ input_buffer' # <<>>
                => action'.type \in {"InputDigit", "InputBackspace", "Quit"}]_vars

\* a numeric Enter that failed on an index past the view has emptied the buffer
C13_Witness ==
    /\ phase = "running"
    /\ action.type = "Enter"
    /\ status.text.kind = "IndexNotFound"
    /\ input_buffer = <<>>

(***************************************************************************)
(* C14  Numeric Enter.  When input_buffer holds digits denoting the        *)
(* integer n and view-index n is a directory, Enter toggles that           *)
(* directory, sets the cursor to n, clears the status and empties the      *)
(* buffer: the resulting state and the return value are those of           *)
(* Toggle(n) from the same state.  On the fifteen-row view the digits 1, 2 *)
(* toggle the directory on index 12.                                       *)
(***************************************************************************)
\* the integer a string of decimal digits denotes
RECURSIVE Decimal(_)
Decimal(buf) ==
    IF buf = <<>> THEN 0
    ELSE 10 * Decimal(SubSeq(buf, 1, Len(buf) - 1)) + DigitVal(buf[Len(buf)])

C14_NumericEnter ==
    (phase = "running" /\ input_buffer # <<>>) =>
        LET n == Decimal(input_buffer) IN
        IsDirIndex(St, n) =>
            LET e == update(St, Act("Enter", 0, ""))
                target == flatten_view(St)[n + 1].node
            IN /\ e = update(St, Act("Toggle", n, ""))
               /\ e.ret = "Ok(true)"
               /\ e.state.cursor = n
               /\ ~e.state.status.present
               /\ e.state.input_buffer = <<>>
               /\ target \in ExpandedRefs(e.state) <=> target \notin ExpandedRefs(St)
               /\ ExpandedRefs(e.state) \ {target} = ExpandedRefs(St) \ {target}

\* the digits 1, 2 are typed and view-index 12 of the fifteen rows is the
\* directory z
C14_Witness ==
    /\ phase = "running"
    /\ input_buffer = <<"1", "2">>
    /\ Len(flatten_view(St)) = 15
    /\ IsDirIndex(St, 12)
    /\ NodeAt(flatten_view(St)[13].node).path = <<N_root, N_z>>

(***************************************************************************)
(* C15  Enter with an empty input buffer is ToggleAtCursor: from the same  *)
(* state both give the same resulting state and the same return value,     *)
(* whether the cursor row is a directory or a file.                        *)
(***************************************************************************)
C15_EnterIsToggleAtCursor ==
    (phase = "running" /\ input_buffer = <<>>) =>
        /\ update(St, Act("Enter", 0, "")) = update(St, Act("ToggleAtCursor", 0, ""))
        /\ update(St, Act("Enter", 0, "")).state.input_buffer = <<>>

\* Enter was handled with no digits typed and the cursor on the file b.txt
\* (view-index 3, which the digit keys cannot name)
C15_Witness ==
    /\ phase = "running"
    /\ action.type = "Enter"
    /\ cursor = 3
    /\ status.present
    /\ status.text.kind = "NotToggleable"
    /\ status.text.node.path = P_b
    /\ status.text.node = NodeAt(flatten_view(St)[cursor + 1].node)

(***************************************************************************)
(* C16  As stated: a buffer built by InputDigit actions, of any length,    *)
(* always parses, so Enter never takes the "Invalid index" branch.         *)
(***************************************************************************)
C16_AlwaysParsesAsStated ==
    InSession => ~(status.present /\ status.text.kind = "InvalidIndex")

(***************************************************************************)
(* C16  The buffer holds ASCII digits only.  Enter on a non-empty buffer   *)
(* takes the "Invalid index" branch exactly when the number the digits     *)
(* denote exceeds usize::MAX; it then sets an error status naming the      *)
(* buffer, empties the buffer and leaves expanded_nodes and the cursor     *)
(* unchanged.  A buffer whose value fits a usize always parses.            *)
(***************************************************************************)
C16_ParsesUnlessOverflow ==
    phase = "running" =>
        /\ \A i \in 1..Len(input_buffer) : input_buffer[i] \in AsciiDigits
        /\ input_buffer # <<>> =>
              LET e == update(St, Act("Enter", 0, "")) IN
              IF Decimal(input_buffer) > UsizeMax
              THEN /\ e.ret = "Ok(true)"
                   /\ e.state = [St EXCEPT !.status = ErrorStatus(InvalidIndexText(input_buffer)),
                                           !.input_buffer = <<>>]
              ELSE ~(e.state.status.present /\ e.state.status.text.kind = "InvalidIndex")

\* Enter refused the digits 2, 0: twenty does not fit the index type
C16_Witness ==
    /\ phase = "running"
    /\ action.type = "Enter"
    /\ status = ErrorStatus(InvalidIndexText(<<"2", "0">>))
    /\ input_buffer = <<>>

(***************************************************************************)
(* C17  MoveUp sets the cursor to max(cursor - 1, 0) and MoveDown to       *)
(* min(cursor + 1, view_len - 1) (0 for an empty view), never out of       *)
(* range; both empty the input buffer, clear the status and leave          *)
(* expanded_nodes unchanged.                                               *)
(***************************************************************************)
C17_MoveSaturates ==
    [][(phase = "running" /\ action'.type \in {"MoveUp", "MoveDown"}) =>
          LET view_len == Len(flatten_view(St)) IN
          /\ action'.type = "MoveUp" =>
                cursor' = IF cursor - 1 > 0 THEN cursor - 1 ELSE 0
          /\ action'.type = "MoveDown" =>
                cursor' = IF view_len = 0 THEN 0
                          ELSE IF cursor + 1 < view_len - 1 THEN cursor + 1
                          ELSE view_len - 1
          /\ cursor' >= 0
          /\ cursor' < view_len \/ view_len = 0
          /\ input_buffer' = <<>>
          /\ status' = NoStatus
          /\ expanded_nodes' = expanded_nodes
          /\ viewport_height' = viewport_height
          /\ ret' = "Ok(true)"]_vars

\* MoveUp was handled and the cursor is on the first of several rows
C17_Witness ==
    /\ phase = "running"
    /\ action.type = "MoveUp"
    /\ cursor = 0
    /\ Len(flatten_view(St)) > 1
    /\ input_buffer = <<>>
    /\ ~status.present

(***************************************************************************)
(* C18  A failure to read the root path itself is fatal: when the root is  *)
(* missing, or is a directory that cannot be listed, the scan returns an   *)
(* error, no tree is produced and no session is started.                   *)
(***************************************************************************)
C18_RootFailureFatal ==
    (phase # "start" /\ Lookup(fs, P_root).t \in {"absent", "denied"}) =>
        /\ scanResult = ScanErr
        /\ phase = "failed"
        /\ expanded_nodes = <<>>
        /\ action = NoAction

\* the scan of a root directory that cannot be listed has failed
C18_Witness ==
    /\ phase = "failed"
    /\ Lookup(fs, P_root) = Denied
    /\ scanResult.tag = "Err"

(***************************************************************************)
(* C19  Scan determinism: on an unchanging filesystem a second scan of the *)
(* same path, whatever order the operating system enumerates the           *)
(* directory entries in, returns a tree equal to the first in structure,   *)
(* order of children and sizes.                                            *)
(***************************************************************************)
C19_ScanDeterminism ==
    scanResult.tag = "Ok" =>
        \A ord \in EnumOrders :
            LET again == scan(fs, ord, overflowChecks, P_root) IN
            /\ again.tag = "Ok"
            /\ again.node = scanResult.node
            /\ again.node.children = Root.children
            /\ again.node.size = Root.size

\* a scanned root with three children and two grandchildren, entries that
\* the enumeration orders yield differently
C19_Witness ==
    /\ phase = "scanned"
    /\ scanResult.tag = "Ok"
    /\ Len(Root.children) = 3
    /\ \E i \in 1..3 : Len(Root.children[i].children) = 2
    /\ \E o1, o2 \in EnumOrders :
          ReadDir(fs, o1, P_root).entries # ReadDir(fs, o2, P_root).entries

(***************************************************************************)
(* C20  flatten_view is a depth-first pre-order traversal: the view is     *)
(* never empty, its first row is the root at depth 0, every child row      *)
(* comes after its parent's row with the parent's depth plus one and       *)
(* before any later sibling of the parent, children keep their stored      *)
(* order, and no node appears twice.                                       *)
(***************************************************************************)
\* pre-order on references: an ancestor first, otherwise the smaller child
\* index at the first place the two differ
RefBefore(a, b) ==
    \/ Len(a) < Len(b) /\ SubSeq(b, 1, Len(a)) = a
    \/ \E k \in 1..Min(Len(a), Len(b)) :
          /\ SubSeq(a, 1, k - 1) = SubSeq(b, 1, k - 1)
          /\ a[k] < b[k]

C20_PreOrder ==
    InSession =>
        LET v == flatten_view(St) IN
        /\ Len(v) >= 1
        /\ v[1] = [node |-> RootRef, depth |-> 0]
        /\ \A i \in 2..Len(v) :
              \E j \in 1..(i - 1) :
                  /\ v[j].node = Parent(v[i].node)
                  /\ v[i].depth = v[j].depth + 1
        /\ \A i, j \in 1..Len(v) :
              (i < j /\ Parent(v[i].node) = Parent(v[j].node)
                  /\ Len(v[i].node) = Len(v[j].node) /\ Len(v[i].node) > 0)
                  => v[i].node[Len(v[i].node)] < v[j].node[Len(v[j].node)]
        /\ \A i, j \in 1..Len(v) : i < j => RefBefore(v[i].node, v[j].node)
        /\ \A i, j \in 1..Len(v) : v[i].node = v[j].node => i = j

\* a view that goes three levels down and comes back up to a child of the
\* root
C20_Witness ==
    /\ phase = "running"
    /\ LET v == flatten_view(St) IN
       \E i \in 1..(Len(v) - 2) :
           /\ v[i].depth = 3
           /\ v[i + 1].depth = 2
           /\ v[i + 2].depth = 1

(***************************************************************************)
(* C21  InputDigit(d) appends the digit d to the end of input_buffer and   *)
(* clears any current status, without changing cursor or expanded_nodes;   *)
(* in every reachable state input_buffer holds ASCII decimal digits only   *)
(* (a character that is not a digit is not appended).                      *)
(***************************************************************************)
C21_InputDigit ==
    [][/\ (phase = "running" /\ action'.type = "InputDigit") =>
            /\ input_buffer' = IF action'.ch \in AsciiDigits
                               THEN input_buffer \o <<action'.ch>>
                               ELSE input_buffer
            /\ status' = NoStatus
            /\ cursor' = cursor
            /\ expanded_nodes' = expanded_nodes
            /\ ret' = "Ok(true)"
       /\ \A i \in 1..Len(input_buffer') : input_buffer'[i] \in AsciiDigits]_vars

\* the digit 2 was appended to a buffer that held the digit 0
C21_Witness ==
    /\ phase = "running"
    /\ action = Act("InputDigit", 0, "2")
    /\ input_buffer = <<"0", "2">>
    /\ ~status.present
    /\ cursor > 0

(***************************************************************************)
(* C22  As stated: InputBackspace removes exactly the last character of    *)
(* input_buffer, and is a no-op when the buffer is already empty.          *)
(***************************************************************************)
C22_BackspaceAsStated ==
    [][(phase = "running" /\ action'.type = "InputBackspace") =>
          IF input_buffer = <<>>
          THEN UNCHANGED UiVars
          ELSE input_buffer' = SubSeq(input_buffer, 1, Len(input_buffer) - 1)]_vars

(***************************************************************************)
(* C22  InputBackspace removes exactly the last character of input_buffer  *)
(* and leaves an empty buffer empty; in both cases it clears the status    *)
(* and changes neither cursor nor expanded_nodes.                          *)
(***************************************************************************)
C22_Backspace ==
    [][(phase = "running" /\ action'.type = "InputBackspace") =>
          /\ input_buffer' = IF input_buffer = <<>> THEN <<>>
                             ELSE SubSeq(input_buffer, 1, Len(input_buffer) - 1)
          /\ status' = NoStatus
          /\ cursor' = cursor
          /\ expanded_nodes' = expanded_nodes
          /\ viewport_height' = viewport_height
          /\ ret' = "Ok(true)"]_vars

\* InputBackspace was handled and one typed digit is left
C22_Witness ==
    /\ phase = "running"
    /\ action.type = "InputBackspace"
    /\ Len(input_buffer) = 1
    /\ ~status.present

(***************************************************************************)
(* C23  After a successful Toggle(i) or numeric Enter for index i the      *)
(* cursor equals i: rows 0..=i of the view are unchanged by the toggle, so *)
(* i is inside the new view and neither the clamp to view_len - 1 nor the  *)
(* re-clamp inside toggle_by_index changes the final cursor; a successful  *)
(* ToggleAtCursor leaves the cursor unchanged.                             *)
(***************************************************************************)
C23_CursorSnaps ==
    phase = "running" =>
        \A a \in ToggleLike :
            LET i == TargetIndex(St, a) IN
            IsDirIndex(St, i) =>
                LET before == flatten_view(St)
                    after == flatten_view(After(St, a))
                IN /\ Len(after) > i
                   /\ SubSeq(after, 1, i + 1) = SubSeq(before, 1, i + 1)
                   /\ After(St, a).cursor = i
                   /\ Min(i, Len(after) - 1) = i
                   /\ (a.type = "ToggleAtCursor"
                         \/ (a.type = "Enter" /\ input_buffer = <<>>))
                        => /\ After(St, a).cursor = cursor
                           /\ toggle_by_index(St, i).state.cursor = cursor

\* Toggle(i) collapsed a directory below the root and the cursor is on it
C23_Witness ==
    /\ phase = "running"
    /\ action.type = "Toggle"
    /\ action.index >= 1
    /\ ~status.present
    /\ cursor = action.index
    /\ IsDirIndex(St, cursor)
    /\ flatten_view(St)[cursor + 1].node \notin ExpandedRefs(St)
    /\ NodeAt(flatten_view(St)[cursor + 1].node).children # <<>>

(***************************************************************************)
(* C24  Status lifecycle: after every action other than Quit the status is *)
(* present exactly when the action was a ToggleAtCursor, Toggle or Enter   *)
(* that failed; every status set has is_error = true; so an error status   *)
(* is gone after the next action other than Quit unless that action fails  *)
(* too.                                                                    *)
(***************************************************************************)
\* the toggling action a fails in state s: Enter cannot parse the buffer,
\* or the index is past the view or names a file
Fails(s, a) ==
    /\ a.type \in {"ToggleAtCursor", "Toggle", "Enter"}
    /\ \/ a.type = "Enter" /\ s.input_buffer # <<>>
                           /\ Decimal(s.input_buffer) > UsizeMax
       \/ IsFailingIndex(s, TargetIndex(s, a))

C24_StatusLifecycle ==
    [][(phase = "running" /\ action'.type \notin {"Quit", "None"}) =>
          /\ status'.present <=> Fails(St, action')
          /\ status'.present => status'.is_error
          /\ (status.present /\ ~Fails(St, action')) => status' = NoStatus]_vars

\* a Toggle(i) aimed at a file has set an error status
C24_Witness ==
    /\ phase = "running"
    /\ action.type = "Toggle"
    /\ status.present
    /\ status.is_error
    /\ status.text.kind = "NotToggleable"

(***************************************************************************)
(* C25  Quit changes no session state: handling Quit leaves                *)
(* expanded_nodes, cursor, input_buffer and status exactly as they were    *)
(* (a pending buffer or status is not cleared) and only returns the quit   *)
(* result.                                                                 *)
(***************************************************************************)
C25_QuitFrame ==
    [][(phase = "running" /\ action'.type = "Quit") =>
          /\ expanded_nodes' = expanded_nodes
          /\ cursor' = cursor
          /\ input_buffer' = input_buffer
          /\ status' = status
          /\ viewport_height' = viewport_height
          /\ ret' = "Ok(false)"
          /\ phase' = "exited"]_vars

\* the session has ended on Quit with typed digits still in the buffer
C25_Witness ==
    /\ phase = "exited"
    /\ action.type = "Quit"
    /\ input_buffer # <<>>
    /\ cursor > 0
    /\ Len(expanded_nodes) > 1

(***************************************************************************)
(* C26  The rendered window contains the cursor: in every reachable state  *)
(* and for every viewport_height >= 1 the row window [start, end) that     *)
(* render computes satisfies 0 <= start <= cursor < end <= view length and *)
(* end - start <= viewport_height, so the selected row is among the rows   *)
(* drawn.                                                                  *)
(***************************************************************************)
C26_WindowHoldsCursor ==
    InSession =>
        LET total == Len(flatten_view(St)) IN
        \A h \in {viewport_height} \cup 1..MaxHeight :
            LET start == render_start(total, cursor, h)
                end == render_end(total, cursor, h)
            IN /\ 0 <= start
               /\ start <= cursor
               /\ cursor < end
               /\ end <= total
               /\ end - start <= h

\* a view longer than the terminal, scrolled so that rows are left out
\* above and below the window and the cursor is on its last row
C26_Witness ==
    /\ phase = "running"
    /\ LET total == Len(flatten_view(St)) IN
       /\ total = 15
       /\ \E h \in 2..MaxHeight :
             /\ render_start(total, cursor, h) > 0
             /\ render_end(total, cursor, h) < total
             /\ cursor = render_end(total, cursor, h) - 1
             /\ render_end(total, cursor, h) - render_start(total, cursor, h) = h
====
